---- MODULE Spec2Model ----
(***************************************************************************)
(* Quota / entitlement reconciliation of the chat assistant.               *)
(*                                                                         *)
(* The document store (users, stripeCustomers, stripe_events) is the only  *)
(* shared state.  Every handler is a process that takes one step per       *)
(* awaited I/O operation: the synchronous code that runs before the        *)
(* operation is issued belongs to the same step, and so does the           *)
(* synchronous code between the last operation and the response.           *)
(* Time is counted in days.                                                *)
(***************************************************************************)
EXTENDS Integers, Sequences, FiniteSets, TLC

\* ------------------------------------------------------------------ bounds
MaxNow == 8            \* the clock stops advancing at this day
MaxSeqAsks == 4        \* ask requests in one behaviour (one request at a time)
MaxDeliveries == 3     \* webhook deliveries in one behaviour (webhook-only specification)
MaxPlanRequests == 5   \* requests in one behaviour (plan-change specification)
MaxRequests == 4       \* requests of any kind in one behaviour (whole-system specification)
MaxFaults == 1         \* failing external calls (inference, store) in one behaviour
MaxRaceDeliveries == 3 \* webhook deliveries in one behaviour (concurrent deliveries)
MaxFileAsks == 2       \* ask requests in one behaviour (file enrichment specification)
MaxFiles == 4          \* files attached to one ask request
MaxApiRequests == 3    \* requests in one behaviour (endpoint specification)
MaxUploadFiles == 2    \* files in one upload request (endpoint specification)
MaxSentFiles == 11     \* files in one upload request (upload specification)
MaxUploads == 2        \* upload requests in one behaviour (upload specification)
MaxBillingRequests == 3 \* requests in one behaviour (billing specification)
MaxActivateRequests == 3 \* requests in one behaviour (activate specification)

\* ------------------------------------------------------- program constants
FREE_WEEKLY_LIMIT == 3 \* parseInt(process.env.FREE_WEEKLY_LIMIT || '3', 10)
RESET_DAYS == 7        \* now.setUTCDate(now.getUTCDate() + 7)

ACTIVATE_QUOTA == 999999 \* quota: 999999 written by the activate endpoint
MAX_FILES_READ == 3    \* files.slice(0, 3)
UPLOAD_FILE_LIMIT == 10 \* Busboy({ headers, limits: { files: 10 } })

Users == {"u1", "u2"}
NoUid == "nouid"       \* request without the x-user-id header
Customers == {"c1"}
Null == "null"         \* JavaScript null
AskProcs == {"a1", "a2"}
WhProcs == {"w1", "w2"}
Chats == {"default", "chat1"} \* x-chat-id, or 'default' without the header
Impls == {"cjs", "esm"} \* data/uploads/..._index.js (CommonJS) and index.js (ES module)

\* Subscription statuses of the payment provider.
Statuses == {"active", "trialing", "past_due", "canceled"}
Prices == {Null, "price_1"}

\* The events the payment provider sends.  The provider's event id determines
\* the event, so an event is named by its content.
CheckoutEvents ==
    [type : {"checkout.session.completed"}, uid : Users \cup {Null},
     customer : Customers \cup {Null}, status : {Null}]
UpdatedEvents ==
    [type : {"customer.subscription.updated"}, uid : {Null},
     customer : Customers, status : Statuses]
DeletedEvents ==
    [type : {"customer.subscription.deleted"}, uid : {Null},
     customer : Customers, status : {Null}]
OtherEvents ==
    [type : {"invoice.payment_succeeded", "invoice.payment_failed", "charge.refunded"},
     uid : {Null}, customer : {Null}, status : {Null}]
Events == CheckoutEvents \cup UpdatedEvents \cup DeletedEvents \cup OtherEvents
NoEvent == [type |-> "none", uid |-> Null, customer |-> Null, status |-> Null]

VARIABLES
    now,          \* wall clock, in days
    users,        \* collection users: uid -> entitlement document
    ask,          \* ask.js handler instances: local variables and position
    inferOk,      \* history: successful inference calls per user in the current window
    stripeCustomers, \* collection stripeCustomers: customer id -> uid
    stripe_events,   \* collection stripe_events: the event ids recorded
    rewritten,    \* history: event records that were set when they already existed
    applied,      \* history: events whose entitlement write was made
    wh,           \* webhook handler instances
    act,          \* the last answer of the billing and upload endpoints
    impl,         \* which of the two webhook servers is deployed
    budget,       \* requests the environment may still start
    faults,       \* failed external calls so far
    uploads,      \* users/{uid}/chats/{chatId}/uploads: metadata documents held
    intents,      \* payment provider: the payment intents
    customers,    \* payment provider: the customers
    subs          \* payment provider: the subscriptions

vars == <<now, users, ask, inferOk, stripeCustomers, stripe_events, rewritten, applied,
          wh, act, impl, budget, faults, uploads, intents, customers, subs>>

askVars == <<ask, inferOk>>
whVars == <<stripeCustomers, stripe_events, rewritten, applied, wh, impl>>
extVars == <<uploads, intents, customers, subs>>

\* ---------------------------------------------------------- document store
\* A field that a document does not hold is the empty set (numbers) or
\* "absent" (strings); a held number n is {n}.
NoDoc ==
    [exists |-> FALSE, plan |-> "absent", quota |-> {}, quota_reset_at |-> {},
     status |-> "absent", customerId |-> "absent"]

Val(s) == CHOOSE x \in s : TRUE

\* `let { plan = 'NONE', quota = FREE_WEEKLY_LIMIT, quota_reset_at } = ...`
PlanOrDefault(doc) == IF doc.plan = "absent" THEN "NONE" ELSE doc.plan
QuotaOrDefault(doc) == IF doc.quota = {} THEN FREE_WEEKLY_LIMIT ELSE Val(doc.quota)

\* Mutant: the reset write replaces the document (no { merge: true }).
SetQuotaAndReset_NoMerge(doc, q, r) ==
    [NoDoc EXCEPT !.exists = TRUE, !.quota = {q}, !.quota_reset_at = {r}]

\* userRef.set({ quota, quota_reset_at }, { merge: true })
SetQuotaAndReset(doc, q, r) ==
    [doc EXCEPT !.exists = TRUE, !.quota = {q}, !.quota_reset_at = {r}]

\* Mutant: the decrement is applied to the stored value (an atomic increment).
SetQuota_Atomic(doc, q) ==
    [doc EXCEPT !.exists = TRUE,
                !.quota = IF @ = {} THEN {q} ELSE {Val(@) - 1}]

\* Mutant: the decrement is applied twice.
SetQuota_Twice(doc, q) == [doc EXCEPT !.exists = TRUE, !.quota = {q - 1}]

\* userRef.set({ quota: quota - 1 }, { merge: true })
SetQuota(doc, q) == [doc EXCEPT !.exists = TRUE, !.quota = {q}]

\* ------------------------------------------------------------ ask.js
getResetDate(t) == t + RESET_DAYS

\* Mutant: a missing reset time does not open a window.
WindowExpired_IgnoresMissing(resetAt, t) == resetAt # {} /\ Val(resetAt) < t

\* `!resetAt || resetAt < new Date()`
WindowExpired(resetAt, t) == resetAt = {} \/ Val(resetAt) < t

\* Mutant: the admission check is off by one (`quota < 0`).
QuotaExhausted_OffByOne(plan, quota) == plan = "NONE" /\ quota < 0

\* `plan === 'NONE' && quota <= 0`
QuotaExhausted(plan, quota) == plan = "NONE" /\ quota <= 0

\* Mutant: every plan but 'PRO' is charged (the webhook writes "Pro").
ChargesQuota_AllButPRO(plan) == plan # "PRO"

\* Mutant: the decrement is forgotten.
ChargesQuota_Never(plan) == FALSE

\* `if (plan === 'NONE')` before the decrement
ChargesQuota(plan) == plan = "NONE"

\* The `question` of a request body: missing, the empty string, a non-empty
\* string, or a value that is not a string.
Questions == {"absent", "empty", "text", "number"}

\* Mutant: only a missing question is rejected.
NoQuestion_OnlyAbsent(q) == q = "absent"

\* `!question || typeof question !== 'string'`
NoQuestion(q) == q \in {"absent", "empty"} \/ q \notin {"empty", "text"}

\* What a file leaves in its text slot: the extracted text, the marker for an
\* unsupported type, or the marker for a failed fetch or extraction.
FileSlots == {"text", "unsupported", "error"}

\* Mutant: every attached file is read.
FilesToRead_NoLimit(files, bucket) == IF bucket THEN files ELSE 0

\* `Array.isArray(files) && files.length > 0 && S3_BUCKET`, `files.slice(0, 3)`
FilesToRead(files, bucket) ==
    IF files > 0 /\ bucket
    THEN (IF files < MAX_FILES_READ THEN files ELSE MAX_FILES_READ)
    ELSE 0

\* A handler instance: its position, the request (uid, question), the locals
\* plan, quota and resetAt, and what it has answered.  inferred and wrote
\* record whether the inference call was made and whether quota was written.
\* files is the number of files the body lists, bucket whether S3_BUCKET is
\* set, left the files still to read and slots the text slots filled so far.
IdleAsk ==
    [pc |-> "idle", uid |-> NoUid, question |-> "absent", plan |-> "NONE",
     quota |-> 0, resetAt |-> {}, inferred |-> "no", wrote |-> FALSE,
     status |-> 0, respResetAt |-> {},
     files |-> 0, bucket |-> FALSE, left |-> 0, slots |-> <<>>]

\* The response is sent: the locals are gone, the answer stays.
Respond(a, code) ==
    [IdleAsk EXCEPT !.pc = "done", !.uid = a.uid, !.inferred = a.inferred,
                    !.wrote = a.wrote, !.status = code, !.slots = a.slots]

InFlight(a) == a.pc \in {"reconcile", "files", "infer", "save"}

\* Handler instances are interchangeable: a new request takes a1 unless a1 is
\* busy with another request.
FreeAsk(p) == ~InFlight(ask[p]) /\ (p = "a2" => InFlight(ask["a1"]))

\* A request arrives; without caller identity it is answered 401, otherwise
\* the entitlement document is read (userRef.get()).
AskRequest(p, u, question, files, bucket) ==
    /\ FreeAsk(p)
    /\ budget > 0
    /\ budget' = budget - 1
    /\ IF u = NoUid
       THEN ask' = [ask EXCEPT ![p] = Respond(IdleAsk, 401)]
       ELSE LET doc == users[u]
            IN ask' = [ask EXCEPT ![p] =
                   [IdleAsk EXCEPT !.pc = "reconcile", !.uid = u,
                                   !.question = question,
                                   !.files = files, !.bucket = bucket,
                                   !.plan = PlanOrDefault(doc),
                                   !.quota = QuotaOrDefault(doc),
                                   !.resetAt = doc.quota_reset_at]]
    /\ UNCHANGED <<now, users, inferOk, faults, whVars, act, extVars>>

\* A request without usable attachments.
AskLoad(p, u, question) == AskRequest(p, u, question, 0, FALSE)

\* The window check at the current time, the reset write when the window has
\* expired, then the admission check and the validation of the body; an
\* admitted request goes on to read its files, or to the inference call.
AskReconcile(p) ==
    LET a == ask[p]
        expired == WindowExpired(a.resetAt, now)
        quota == IF expired THEN FREE_WEEKLY_LIMIT ELSE a.quota
        resetAt == IF expired THEN {getResetDate(now)} ELSE a.resetAt
        b == [a EXCEPT !.quota = quota, !.resetAt = resetAt]
    IN /\ a.pc = "reconcile"
       /\ IF expired
          THEN /\ users' = [users EXCEPT ![a.uid] =
                               SetQuotaAndReset(@, quota, Val(resetAt))]
               /\ inferOk' = [inferOk EXCEPT ![a.uid] = 0]
          ELSE UNCHANGED <<users, inferOk>>
       /\ ask' = [ask EXCEPT ![p] =
              IF QuotaExhausted(a.plan, quota)
              THEN [Respond(a, 402) EXCEPT !.respResetAt = resetAt]
              ELSE IF NoQuestion(a.question)
              THEN Respond(a, 400)
              ELSE [b EXCEPT !.pc = IF FilesToRead(a.files, a.bucket) > 0
                                    THEN "files" ELSE "infer",
                              !.left = FilesToRead(a.files, a.bucket)]]
       /\ UNCHANGED <<now, budget, faults, whVars, act, extVars>>

\* One file of the loop: getS3ObjectBuffer and the extraction by type; an
\* error is caught and leaves the error marker in the file's slot.
AskReadFile(p, slot) ==
    LET a == ask[p]
    IN /\ a.pc = "files"
       /\ ask' = [ask EXCEPT ![p] =
              [a EXCEPT !.slots = Append(a.slots, slot), !.left = a.left - 1,
                        !.pc = IF a.left = 1 THEN "infer" ELSE "files"]]
       /\ UNCHANGED <<now, users, inferOk, budget, faults, whVars, act, extVars>>

\* openai.chat.completions.create(...) returns, and a free user's quota is
\* written back as the local quota minus one.
AskInferOk(p) ==
    LET a == ask[p]
    IN /\ a.pc = "infer"
       /\ IF ChargesQuota(a.plan)
          THEN users' = [users EXCEPT ![a.uid] = SetQuota(@, a.quota - 1)]
          ELSE UNCHANGED users
       /\ ask' = [ask EXCEPT ![p] =
              [a EXCEPT !.pc = "save", !.inferred = "ok", !.wrote = ChargesQuota(a.plan)]]
       /\ inferOk' = [inferOk EXCEPT ![a.uid] = @ + 1]
       /\ UNCHANGED <<now, budget, faults, whVars, act, extVars>>

\* Mutant: quota is charged before the inference call, so a failed call
\* leaves it decremented.
AskInferFail_Charged(p) ==
    LET a == ask[p]
    IN /\ a.pc = "infer"
       /\ faults < MaxFaults
       /\ faults' = faults + 1
       /\ users' = [users EXCEPT ![a.uid] = [@ EXCEPT !.quota = {a.quota - 1}]]
       /\ ask' = [ask EXCEPT ![p] =
              Respond([a EXCEPT !.inferred = "fail"], 500)]
       /\ UNCHANGED <<now, inferOk, budget, whVars, act, extVars>>

\* openai.chat.completions.create(...) throws: 500 'OpenAI error'.
AskInferFail(p) ==
    LET a == ask[p]
    IN /\ a.pc = "infer"
       /\ faults < MaxFaults
       /\ faults' = faults + 1
       /\ ask' = [ask EXCEPT ![p] =
              Respond([a EXCEPT !.inferred = "fail"], 500)]
       /\ UNCHANGED <<now, users, inferOk, budget, whVars, act, extVars>>

\* The chat transcript is saved and the answer returned.
AskSaveOk(p) ==
    LET a == ask[p]
    IN /\ a.pc = "save"
       /\ ask' = [ask EXCEPT ![p] = Respond(a, 200)]
       /\ UNCHANGED <<now, users, inferOk, budget, faults, whVars, act, extVars>>

\* Saving the chat transcript throws: the catch-all answers 500 'Server error'.
AskSaveFail(p) ==
    LET a == ask[p]
    IN /\ a.pc = "save"
       /\ faults < MaxFaults
       /\ faults' = faults + 1
       /\ ask' = [ask EXCEPT ![p] = Respond(a, 500)]
       /\ UNCHANGED <<now, users, inferOk, budget, whVars, act, extVars>>

\* ------------------------------------------------------- webhook servers
\* const PRICE_TO_PLAN = {}: no price is mapped.
PRICE_TO_PLAN == [x \in {} |-> "Pro"]

\* `PRICE_TO_PLAN[priceId] || "Pro"`
PlanForPrice(priceId) ==
    IF priceId \in DOMAIN PRICE_TO_PLAN THEN PRICE_TO_PLAN[priceId] ELSE "Pro"

\* Mutant: past_due still counts as paid, as in the billing summary.
PlanForStatus_PastDue(status, priceId) ==
    IF status \in {"active", "trialing", "past_due"} THEN PlanForPrice(priceId) ELSE "NONE"

\* `status === "active" || status === "trialing" ? PRICE_TO_PLAN[priceId] || "Pro" : "NONE"`
PlanForStatus(status, priceId) ==
    IF status = "active" \/ status = "trialing" THEN PlanForPrice(priceId) ELSE "NONE"

\* Mutant: the write replaces the document (no { merge: true }).
SetPlan_NoMerge(doc, plan, customerId, status) ==
    [NoDoc EXCEPT !.exists = TRUE, !.plan = plan, !.customerId = customerId,
                  !.status = status]

\* users.doc(uid).set({ plan, stripe: { customerId, ..., status } }, { merge: true })
SetPlan(doc, plan, customerId, status) ==
    [doc EXCEPT !.exists = TRUE, !.plan = plan, !.customerId = customerId,
                !.status = status]

\* Mutant: a deleted subscription leaves the paid plan.
EventPlan_DeletedKeepsPro(ev, priceId) ==
    CASE ev.type = "customer.subscription.updated" -> PlanForStatus(ev.status, priceId)
      [] OTHER -> PlanForPrice(priceId)

\* The entitlement fields an event writes once its user is known.
EventPlan(ev, priceId) ==
    CASE ev.type = "checkout.session.completed" -> PlanForPrice(priceId)
      [] ev.type = "customer.subscription.updated" -> PlanForStatus(ev.status, priceId)
      [] OTHER -> "NONE"
EventStatus(ev) ==
    CASE ev.type = "checkout.session.completed" -> "active"
      [] ev.type = "customer.subscription.updated" -> ev.status
      [] OTHER -> "canceled"

\* Mutant: an unknown customer falls back to a user.
LookupUid_FirstUser(c) ==
    IF stripeCustomers[c] \in {"absent", Null} THEN "u1" ELSE stripeCustomers[c]

\* `snap.exists ? snap.data().uid : null`, and `!uid`
LookupUid(c) == IF stripeCustomers[c] = "absent" THEN Null ELSE stripeCustomers[c]

\* Mutant: the dedupe check is missing.
AlreadySeen_Never(ev) == FALSE

\* `if (seen.exists) return res.json({ received: true, duplicate: true })`
AlreadySeen(ev) == ev \in stripe_events

\* Whether the checkout case writes the customer index: the CommonJS server
\* leaves the case when there is no client_reference_id, the ES module
\* server writes { uid } whenever the session has a customer.
WritesIndex(which, ev) ==
    IF which = "cjs" THEN ev.uid # Null /\ ev.customer # Null ELSE ev.customer # Null

IdleWh == [pc |-> "idle", ev |-> NoEvent, uid |-> Null, status |-> 0, duplicate |-> FALSE]

WhRespond(w, code) == [w EXCEPT !.pc = "done", !.status = code]

\* Mutant: the event is recorded before its signature is verified.
WhReject_RecordsFirst(p) ==
    /\ wh[p].pc \in {"idle", "done"}
    /\ budget > 0
    /\ budget' = budget - 1
    /\ wh' = [wh EXCEPT ![p] = WhRespond(IdleWh, 400)]
    /\ \E ev \in Events : stripe_events' = stripe_events \cup {ev}
    /\ UNCHANGED <<now, users, askVars, stripeCustomers, rewritten, applied, act, extVars, impl, faults>>

\* A delivery whose signature does not verify: 400, before anything is read.
WhReject(p) ==
    /\ wh[p].pc \in {"idle", "done"}
    /\ budget > 0
    /\ budget' = budget - 1
    /\ wh' = [wh EXCEPT ![p] = WhRespond(IdleWh, 400)]
    /\ UNCHANGED <<now, users, askVars, stripeCustomers, stripe_events, rewritten, applied,
                   act, extVars, impl, faults>>

\* An authenticated delivery: stripe_events.doc(event.id).get().  A throwing
\* read is swallowed by the dedupe try/catch.
WhReceive(p, ev, ok) ==
    /\ wh[p].pc \in {"idle", "done"}
    /\ budget > 0
    /\ budget' = budget - 1
    /\ ~ok => faults < MaxFaults
    /\ faults' = IF ok THEN faults ELSE faults + 1
    /\ wh' = [wh EXCEPT ![p] =
           IF ~ok THEN [IdleWh EXCEPT !.pc = "process", !.ev = ev]
           ELSE IF AlreadySeen(ev)
           THEN [WhRespond(IdleWh, 200) EXCEPT !.ev = ev, !.duplicate = TRUE]
           ELSE [IdleWh EXCEPT !.pc = "record", !.ev = ev]]
    /\ UNCHANGED <<now, users, askVars, stripeCustomers, stripe_events, rewritten, applied,
                   act, extVars, impl>>

\* Mutant: a throwing insert of the event record ends the delivery with 500.
WhRecord_ThrowEnds(p, ok) ==
    LET w == wh[p]
    IN /\ w.pc = "record"
       /\ ~ok => faults < MaxFaults
       /\ faults' = IF ok THEN faults ELSE faults + 1
       /\ IF ok
          THEN /\ stripe_events' = stripe_events \cup {w.ev}
               /\ rewritten' = IF w.ev \in stripe_events
                               THEN rewritten \cup {w.ev} ELSE rewritten
          ELSE UNCHANGED <<stripe_events, rewritten>>
       /\ wh' = [wh EXCEPT ![p] = IF ok THEN [w EXCEPT !.pc = "process"]
                                  ELSE WhRespond(w, 500)]
       /\ UNCHANGED <<now, users, askVars, stripeCustomers, applied, act, extVars,
                      impl, budget>>

\* stripe_events.doc(event.id).set({...}); a throwing write is swallowed.
WhRecord(p, ok) ==
    LET w == wh[p]
    IN /\ w.pc = "record"
       /\ ~ok => faults < MaxFaults
       /\ faults' = IF ok THEN faults ELSE faults + 1
       /\ IF ok
          THEN /\ stripe_events' = stripe_events \cup {w.ev}
               /\ rewritten' = IF w.ev \in stripe_events
                               THEN rewritten \cup {w.ev} ELSE rewritten
          ELSE UNCHANGED <<stripe_events, rewritten>>
       /\ wh' = [wh EXCEPT ![p] = [w EXCEPT !.pc = "process"]]
       /\ UNCHANGED <<now, users, askVars, stripeCustomers, applied, act, extVars,
                      impl, budget>>

\* case "checkout.session.completed": the session is retrieved from the
\* provider, then the customer index or, without a customer, the entitlement
\* is written.
WhCheckout(p, ok, priceId) ==
    LET w == wh[p]
        ev == w.ev
    IN /\ w.pc = "process"
       /\ ev.type = "checkout.session.completed"
       /\ ~ok => faults < MaxFaults
       /\ faults' = IF ok THEN faults ELSE faults + 1
       /\ IF ~ok
          THEN /\ wh' = [wh EXCEPT ![p] = WhRespond(w, 500)]
               /\ UNCHANGED <<users, stripeCustomers, applied>>
          ELSE IF WritesIndex(impl, ev)
          THEN /\ stripeCustomers' = [stripeCustomers EXCEPT ![ev.customer] = ev.uid]
               /\ wh' = [wh EXCEPT ![p] =
                      IF ev.uid # Null THEN [w EXCEPT !.pc = "user", !.uid = ev.uid]
                      ELSE WhRespond(w, 200)]
               /\ UNCHANGED <<users, applied>>
          ELSE IF ev.uid # Null
          THEN /\ users' = [users EXCEPT ![ev.uid] =
                      SetPlan(@, EventPlan(ev, priceId), ev.customer, EventStatus(ev))]
               /\ wh' = [wh EXCEPT ![p] = WhRespond([w EXCEPT !.uid = ev.uid], 200)]
               /\ applied' = applied \cup {ev}
               /\ UNCHANGED stripeCustomers
          ELSE /\ wh' = [wh EXCEPT ![p] = WhRespond(w, 200)]
               /\ UNCHANGED <<users, stripeCustomers, applied>>
       /\ UNCHANGED <<now, askVars, stripe_events, rewritten, act, extVars, impl, budget>>

\* case "customer.subscription.updated" / "customer.subscription.deleted":
\* stripeCustomers.doc(customerId).get(); an unknown customer ends the case.
WhLookup(p, ok) ==
    LET w == wh[p]
        uid == LookupUid(w.ev.customer)
    IN /\ w.pc = "process"
       /\ w.ev.type \in {"customer.subscription.updated", "customer.subscription.deleted"}
       /\ ~ok => faults < MaxFaults
       /\ faults' = IF ok THEN faults ELSE faults + 1
       /\ wh' = [wh EXCEPT ![p] =
              IF ~ok THEN WhRespond(w, 500)
              ELSE IF uid = Null THEN WhRespond(w, 200)
              ELSE [w EXCEPT !.pc = "user", !.uid = uid]]
       /\ UNCHANGED <<now, users, askVars, stripeCustomers, stripe_events, rewritten, applied,
                      act, extVars, impl, budget>>

\* Mutant: a failed invoice payment downgrades every user.
WhIgnore_Downgrades(p) ==
    LET w == wh[p]
    IN /\ w.pc = "process"
       /\ w.ev \in OtherEvents
       /\ wh' = [wh EXCEPT ![p] = WhRespond(w, 200)]
       /\ users' = [u \in Users |-> [users[u] EXCEPT !.plan = "NONE"]]
       /\ UNCHANGED <<now, askVars, stripeCustomers, stripe_events, rewritten, applied,
                      act, extVars, impl, budget, faults>>

\* case "invoice.payment_succeeded", "invoice.payment_failed", default: break.
WhIgnore(p) ==
    LET w == wh[p]
    IN /\ w.pc = "process"
       /\ w.ev \in OtherEvents
       /\ wh' = [wh EXCEPT ![p] = WhRespond(w, 200)]
       /\ UNCHANGED <<now, users, askVars, stripeCustomers, stripe_events, rewritten, applied,
                      act, extVars, impl, budget, faults>>

\* users.doc(uid).set({ plan, stripe: {...} }, { merge: true }), then
\* res.json({ received: true }); a throwing write is answered 500.
WhSetUser(p, ok, priceId) ==
    LET w == wh[p]
    IN /\ w.pc = "user"
       /\ ~ok => faults < MaxFaults
       /\ faults' = IF ok THEN faults ELSE faults + 1
       /\ IF ok
          THEN /\ users' = [users EXCEPT ![w.uid] =
                      SetPlan(@, EventPlan(w.ev, priceId), w.ev.customer,
                              EventStatus(w.ev))]
               /\ wh' = [wh EXCEPT ![p] = WhRespond(w, 200)]
               /\ applied' = applied \cup {w.ev}
          ELSE /\ wh' = [wh EXCEPT ![p] = WhRespond(w, 500)]
               /\ UNCHANGED <<users, applied>>
       /\ UNCHANGED <<now, askVars, stripeCustomers, stripe_events, rewritten,
                      act, extVars, impl, budget>>

\* ------------------------------------------------------ activate endpoint
\* What stripe.paymentIntents.retrieve returns: the intent's status and its
\* metadata.uid ("absent" when the metadata holds no uid).
Intents == [status : {"succeeded", "requires_payment_method"},
            uid : Users \cup {"absent"}]

\* An answer: the endpoint, the caller, the HTTP status, the external
\* services the request called ("store", "provider"), the number of entries
\* an upload returned, for the billing endpoints the customer resolved, the
\* status of the subscription read and the plan reported, and for activate
\* the payment intent retrieved.
NoIntent == [status |-> Null, uid |-> Null]
NoAnswer ==
    [endpoint |-> "none", uid |-> NoUid, status |-> 0, calls |-> {},
     returned |-> 0, customer |-> Null, sub |-> Null, plan |-> Null,
     intent |-> NoIntent]

\* `pi.status !== 'succeeded'` -> 400, `pi.metadata?.uid !== uid` -> 403
ActivateCode(u, hasId, found, pi) ==
    IF u = NoUid THEN 401
    ELSE IF ~hasId THEN 400
    ELSE IF ~found THEN 400
    ELSE IF pi.status # "succeeded" THEN 400
    ELSE IF pi.uid # u THEN 403
    ELSE 200

\* Mutant: activation upgrades every user.
SetActivated_Everyone(docs, u) ==
    [v \in Users |-> [docs[v] EXCEPT !.exists = TRUE, !.plan = "PRO",
                                     !.quota = {ACTIVATE_QUOTA}]]

\* users.doc(uid).set({ plan: 'PRO', plan_activated_at, quota: 999999 }, { merge: true })
SetActivated(doc) == [doc EXCEPT !.exists = TRUE, !.plan = "PRO", !.quota = {ACTIVATE_QUOTA}]
SetActivatedFor(docs, u) == [docs EXCEPT ![u] = SetActivated(@)]

Activate(u, hasId, found, pi) ==
    LET code == ActivateCode(u, hasId, found, pi)
    IN /\ budget > 0
       /\ budget' = budget - 1
       /\ act' = [NoAnswer EXCEPT
                     !.endpoint = "activate", !.uid = u, !.status = code,
                     !.calls = (IF u # NoUid /\ hasId THEN {"provider"} ELSE {})
                               \cup (IF code = 200 THEN {"store"} ELSE {}),
                     !.plan = IF code = 200 THEN "PRO" ELSE Null,
                     !.intent = IF u # NoUid /\ hasId /\ found THEN pi ELSE NoIntent]
       /\ IF code = 200
          THEN users' = SetActivatedFor(users, u)
          ELSE UNCHANGED users
       /\ UNCHANGED <<now, askVars, whVars, faults, extVars>>

\* stripe.paymentIntents.retrieve(paymentIntentId): the status and metadata.uid
Retrieve(i) == [status |-> i.status, uid |-> i.uid]

\* activate with the id of an intent the provider holds
ActivateIntent(u) == \E i \in intents : Activate(u, TRUE, TRUE, Retrieve(i))

\* ------------------------------------------------- other billing endpoints
\* subscribe: a missing x-user-id throws 'Missing user header' inside the
\* try, and the catch answers 400; otherwise the price is retrieved and a
\* payment intent created, and whatever throws is answered 400.
SubscribeCode(u, ok) ==
    IF u = NoUid THEN 400
    ELSE IF ~ok THEN 400
    ELSE 200

\* metadata: { price_id, user_id: userId, user_email }: the intent carries
\* the caller as metadata.user_id and holds no metadata.uid.
NewIntent(u) == [status |-> "requires_payment_method", uid |-> "absent", user_id |-> u]

Subscribe(u, ok) ==
    /\ budget > 0
    /\ budget' = budget - 1
    /\ ~ok => faults < MaxFaults
    /\ faults' = IF ok THEN faults ELSE faults + 1
    /\ act' = [NoAnswer EXCEPT
                  !.endpoint = "subscribe", !.uid = u, !.status = SubscribeCode(u, ok),
                  !.calls = IF u = NoUid THEN {} ELSE {"provider"}]
    /\ intents' = IF SubscribeCode(u, ok) = 200 THEN intents \cup {NewIntent(u)}
                  ELSE intents
    /\ UNCHANGED <<now, users, askVars, whVars, uploads, customers, subs>>

\* The payer completes the payment of an intent.
PaymentSucceeds ==
    \E i \in intents :
        /\ i.status # "succeeded"
        /\ intents' = (intents \ {i}) \cup {[i EXCEPT !.status = "succeeded"]}
        /\ UNCHANGED <<now, users, askVars, whVars, act, budget, faults,
                       uploads, customers, subs>>

\* x-user-email values, and the emails of the provider's customers.
Emails == {"e1", "e2"}

\* The id of the next customer the provider creates.
Created == {c \in customers : c.id \notin Customers}
NewCustomer(email) == [id |-> "cus_" \o ToString(Cardinality(Created) + 1), email |-> email]

\* ensureCustomer(uid, email): with an email, the first customer the search
\* by email finds (a throwing search is swallowed); otherwise, and when
\* nothing is found, a new customer.  The result is the customer and
\* whether it was created.
EnsureCustomer(email, searchOk) ==
    LET found == IF email # Null /\ searchOk
                 THEN {c \in customers : c.email = email} ELSE {}
    IN IF found # {}
       THEN {[customer |-> c, created |-> FALSE] : c \in found}
       ELSE {[customer |-> NewCustomer(email), created |-> TRUE]}

\* stripe.subscriptions.list({ customer, status, limit: 1 })
ActiveSubs(cid) == {x \in subs : x.customer = cid /\ x.status = "active"}
AllSubs(cid) == {x \in subs : x.customer = cid}

\* planFromSubscription(sub)
planFromSubscription(status) ==
    IF status \in {"trialing", "active", "past_due"}
    THEN [plan |-> "pro", active |-> TRUE] ELSE [plan |-> "none", active |-> FALSE]

\* cancel, create-setup-intent, billing summary: 401 without x-user-id, then
\* ensureCustomer and the provider calls; whatever throws is answered 500.
BillingCode(u, ok) ==
    IF u = NoUid THEN 401
    ELSE IF ~ok THEN 500
    ELSE 200

\* The first subscription of the customer, marked cancel_at_period_end.
MarkCancelled(cid) ==
    IF ActiveSubs(cid) = {} THEN {subs}
    ELSE {(subs \ {x}) \cup {[x EXCEPT !.cancel = TRUE]} : x \in ActiveSubs(cid)}

\* The endpoint's calls after ensureCustomer; ok tells whether they return.
Billing(endpoint, u, email, searchOk, ok) ==
    /\ budget > 0
    /\ budget' = budget - 1
    /\ ~(searchOk /\ ok) => faults < MaxFaults
    /\ faults' = IF searchOk /\ ok THEN faults ELSE faults + 1
    /\ IF u = NoUid
       THEN /\ act' = [NoAnswer EXCEPT !.endpoint = endpoint, !.uid = u, !.status = 401]
            /\ UNCHANGED <<customers, subs>>
       ELSE \E r \in EnsureCustomer(email, searchOk) :
              LET cid == r.customer.id
                  seen == IF endpoint = "summary" /\ ok /\ AllSubs(cid) # {}
                          THEN {x.status : x \in AllSubs(cid)} ELSE {Null}
              IN /\ customers' = IF r.created THEN customers \cup {r.customer}
                                 ELSE customers
                 /\ IF endpoint = "cancel" /\ ok
                    THEN subs' \in MarkCancelled(cid)
                    ELSE UNCHANGED subs
                 /\ \E st \in seen :
                      act' = [NoAnswer EXCEPT
                                 !.endpoint = endpoint, !.uid = u,
                                 !.status = BillingCode(u, ok),
                                 !.calls = {"provider"},
                                 !.customer = IF ok /\ endpoint # "cancel" THEN cid ELSE Null,
                                 !.sub = st,
                                 !.plan = IF endpoint = "summary" /\ ok
                                          THEN (IF st = Null THEN "none"
                                                ELSE planFromSubscription(st).plan)
                                          ELSE Null]
    /\ UNCHANGED <<now, users, askVars, whVars, uploads, intents>>

Cancel(u, email, searchOk, ok) == Billing("cancel", u, email, searchOk, ok)
CreateSetupIntent(u, email, searchOk, ok) == Billing("create-setup-intent", u, email, searchOk, ok)
BillingSummary(u, email, searchOk, ok) == Billing("summary", u, email, searchOk, ok)

\* A customer pays at the provider's checkout page: the provider creates the
\* customer with the email typed there and an active subscription.
ProviderCheckout(c, email) ==
    /\ \A x \in customers : x.id # c
    /\ customers' = customers \cup {[id |-> c, email |-> email]}
    /\ subs' = subs \cup {[customer |-> c, status |-> "active", cancel |-> FALSE]}
    /\ UNCHANGED <<now, users, askVars, whVars, act, budget, faults, uploads, intents>>

\* The provider moves a subscription to another status.
SubscriptionMoves(st) ==
    \E x \in subs :
        /\ x.status # st
        /\ subs' = (subs \ {x}) \cup {[x EXCEPT !.status = st]}
        /\ UNCHANGED <<now, users, askVars, whVars, act, budget, faults,
                       uploads, intents, customers>>

\* ----------------------------------------------------------------- upload
\* `req.headers['x-chat-id'] || 'default'`
ChatOf(header) == IF header = Null THEN "default" ELSE header

\* The files the parser hands to the handler: those past the limit are skipped.
Received(n) == IF n < UPLOAD_FILE_LIMIT THEN n ELSE UPLOAD_FILE_LIMIT

\* upload: the content type is checked before the caller identity; a parse
\* error and a failing batch.commit() are answered 500.
UploadCode(u, multipart, n, parseOk, commitOk) ==
    IF ~multipart THEN 400
    ELSE IF u = NoUid THEN 401
    ELSE IF ~parseOk THEN 500
    ELSE IF Received(n) > 0 /\ ~commitOk THEN 500
    ELSE 200

\* Mutant: the documents are written one by one, and a failure leaves the
\* ones written before it.
Persisted_OneByOne(code, received) ==
    IF code = 200 THEN received ELSE IF received > 0 THEN received - 1 ELSE 0

\* batch.set(...) for each file, then `if (files.length) await batch.commit()`
Persisted(code, received) == IF code = 200 THEN received ELSE 0

Upload(u, header, multipart, n, parseOk, commitOk) ==
    LET code == UploadCode(u, multipart, n, parseOk, commitOk)
        reached == multipart /\ u # NoUid /\ parseOk
        received == IF reached THEN Received(n) ELSE 0
    IN /\ budget > 0
       /\ budget' = budget - 1
       /\ ~(parseOk /\ commitOk) => faults < MaxFaults
       /\ faults' = IF parseOk /\ commitOk THEN faults ELSE faults + 1
       /\ act' = [NoAnswer EXCEPT
                     !.endpoint = "upload", !.uid = u, !.status = code,
                     !.calls = IF received > 0 THEN {"store"} ELSE {},
                     !.returned = IF code = 200 THEN received ELSE 0]
       /\ uploads' = IF u = NoUid THEN uploads
                     ELSE [uploads EXCEPT ![u][ChatOf(header)] =
                              @ + Persisted(code, received)]
       /\ UNCHANGED <<now, users, askVars, whVars, intents, customers, subs>>

\* ------------------------------------------------------------------ clock
Tick(d) ==
    /\ now + d <= MaxNow
    /\ now' = now + d
    /\ UNCHANGED <<users, ask, inferOk, budget, faults, whVars, act, extVars>>

\* ---------------------------------------------------------- specifications
InitStore ==
    /\ now = 0
    /\ users = [u \in Users |-> NoDoc]
    /\ ask = [p \in AskProcs |-> IdleAsk]
    /\ inferOk = [u \in Users |-> 0]
    /\ stripeCustomers = [c \in Customers |-> "absent"]
    /\ stripe_events = {}
    /\ rewritten = {}
    /\ applied = {}
    /\ wh = [p \in WhProcs |-> IdleWh]
    /\ act = NoAnswer
    /\ uploads = [u \in Users |-> [c \in Chats |-> 0]]
    /\ intents = {}
    /\ customers = {}
    /\ subs = {}
    /\ faults = 0

\* The ask handler alone, one request at a time.
InitSeq == InitStore /\ impl = "cjs" /\ budget = MaxSeqAsks

NextSeq ==
    \/ \E u \in Users \cup {NoUid}, q \in Questions : AskLoad("a1", u, q)
    \/ AskReconcile("a1")
    \/ AskInferOk("a1")
    \/ AskInferFail("a1")
    \/ AskSaveOk("a1")
    \/ AskSaveFail("a1")
    \/ \E d \in {1, RESET_DAYS} : Tick(d)

SpecSeq == InitSeq /\ [][NextSeq]_vars

\* The webhook server alone, one delivery at a time.
InitWebhook == InitStore /\ impl \in Impls /\ budget = MaxDeliveries

NextWebhook ==
    \/ \E p \in {"w1"} : WhReject(p)
    \/ \E p \in {"w1"}, ev \in Events, ok \in BOOLEAN : WhReceive(p, ev, ok)
    \/ \E p \in {"w1"}, ok \in BOOLEAN : WhRecord(p, ok)
    \/ \E p \in {"w1"}, ok \in BOOLEAN, pr \in Prices : WhCheckout(p, ok, pr)
    \/ \E p \in {"w1"}, ok \in BOOLEAN : WhLookup(p, ok)
    \/ \E p \in {"w1"} : WhIgnore(p)
    \/ \E p \in {"w1"}, ok \in BOOLEAN, pr \in Prices : WhSetUser(p, ok, pr)

SpecWebhook == InitWebhook /\ [][NextWebhook]_vars

\* The whole system: ask requests, webhook deliveries and activate calls for
\* one user and their customer, interleaved at every awaited operation.
TheUser == "u1"
UserEvents ==
    {ev \in Events :
        \/ ev.uid = TheUser /\ ev.customer # Null
        \/ /\ ev.type \in {"customer.subscription.updated", "customer.subscription.deleted"}
           /\ ev.status \in {Null, "past_due"}}

Init == InitStore /\ impl \in Impls /\ budget = MaxRequests

Next ==
    \/ \E p \in AskProcs : AskLoad(p, TheUser, "text")
    \/ \E p \in AskProcs : AskReconcile(p)
    \/ \E p \in AskProcs : AskInferOk(p)
    \/ \E p \in AskProcs : AskInferFail(p)
    \/ \E p \in AskProcs : AskSaveOk(p)
    \/ \E p \in AskProcs : AskSaveFail(p)
    \/ \E p \in {"w1"} : WhReject(p)
    \/ \E p \in {"w1"}, ev \in UserEvents, ok \in {TRUE} : WhReceive(p, ev, ok)
    \/ \E p \in {"w1"}, ok \in {TRUE} : WhRecord(p, ok)
    \/ \E p \in {"w1"}, ok \in {TRUE}, pr \in Prices : WhCheckout(p, ok, pr)
    \/ \E p \in {"w1"}, ok \in {TRUE} : WhLookup(p, ok)
    \/ \E p \in {"w1"}, ok \in {TRUE}, pr \in Prices : WhSetUser(p, ok, pr)
    \/ \E pi \in Intents : Activate(TheUser, TRUE, TRUE, pi)
    \/ \E d \in {RESET_DAYS + 1} : Tick(d)

Spec == Init /\ [][Next]_vars

\* A user whose plan changes while they use up their quota: one ask request
\* and one payment event or activate call at a time.
PlanEvents ==
    {ev \in Events : ev.type = "checkout.session.completed" /\ ev.uid # Null
                     /\ ev.customer # Null}

InitPlans == InitStore /\ impl \in Impls /\ budget = MaxPlanRequests

NextPlans ==
    \/ AskLoad("a1", TheUser, "text")
    \/ AskReconcile("a1")
    \/ AskInferOk("a1")
    \/ AskSaveOk("a1")
    \/ \E ev \in PlanEvents : WhReceive("w1", ev, TRUE)
    \/ WhRecord("w1", TRUE)
    \/ \E pr \in Prices : WhCheckout("w1", TRUE, pr)
    \/ \E pr \in Prices : WhSetUser("w1", TRUE, pr)
    \/ \E pi \in Intents : Activate(TheUser, TRUE, TRUE, pi)
    \/ \E d \in {RESET_DAYS + 1} : Tick(d)

SpecPlans == InitPlans /\ [][NextPlans]_vars

\* The webhook server with two deliveries in flight at once, as when the
\* provider redelivers an event before the first delivery was answered.
InitRace == InitStore /\ impl \in Impls /\ budget = MaxRaceDeliveries

NextRace ==
    \/ \E p \in WhProcs, ev \in UserEvents : WhReceive(p, ev, TRUE)
    \/ \E p \in WhProcs : WhRecord(p, TRUE)
    \/ \E p \in WhProcs, pr \in Prices : WhCheckout(p, TRUE, pr)
    \/ \E p \in WhProcs : WhLookup(p, TRUE)
    \/ \E p \in WhProcs, pr \in Prices : WhSetUser(p, TRUE, pr)

SpecRace == InitRace /\ [][NextRace]_vars

\* The ask handler with attached files, one request at a time.
InitFiles == InitStore /\ impl = "cjs" /\ budget = MaxFileAsks

NextFiles ==
    \/ \E files \in 0..MaxFiles, bucket \in BOOLEAN :
          AskRequest("a1", TheUser, "text", files, bucket)
    \/ AskReconcile("a1")
    \/ \E slot \in FileSlots : AskReadFile("a1", slot)
    \/ AskInferOk("a1")
    \/ AskInferFail("a1")
    \/ AskSaveOk("a1")

SpecFiles == InitFiles /\ [][NextFiles]_vars

\* The upload endpoint, one request at a time.
InitUpload == InitStore /\ impl = "cjs" /\ budget = MaxUploads

NextUpload ==
    \E u \in {TheUser, NoUid}, header \in {Null, "chat1"}, multipart \in BOOLEAN,
       n \in 0..MaxSentFiles, parseOk \in BOOLEAN, commitOk \in BOOLEAN :
        Upload(u, header, multipart, n, parseOk, commitOk)

SpecUpload == InitUpload /\ [][NextUpload]_vars

\* The billing endpoints of one user against the payment provider: the
\* checkout page, subscribe and activate, cancel and the billing summary,
\* and the webhook deliveries of the user's events, one request at a time.
BillingEvents ==
    {ev \in Events :
        \/ ev.type = "checkout.session.completed" /\ ev.uid = TheUser /\ ev.customer # Null
        \/ ev.type = "customer.subscription.updated"}

InitBilling == InitStore /\ impl = "cjs" /\ budget = MaxBillingRequests

NextBilling ==
    \/ \E c \in Customers, email \in Emails : ProviderCheckout(c, email)
    \/ \E st \in Statuses : SubscriptionMoves(st)
    \/ Subscribe(TheUser, TRUE)
    \/ PaymentSucceeds
    \/ ActivateIntent(TheUser)
    \/ \E email \in {Null, "e1"} : Cancel(TheUser, email, TRUE, TRUE)
    \/ \E email \in {Null, "e1"} : BillingSummary(TheUser, email, TRUE, TRUE)
    \/ \E ev \in BillingEvents : WhReceive("w1", ev, TRUE)
    \/ WhRecord("w1", TRUE)
    \/ \E pr \in Prices : WhCheckout("w1", TRUE, pr)
    \/ WhLookup("w1", TRUE)
    \/ \E pr \in Prices : WhSetUser("w1", TRUE, pr)

SpecBilling == InitBilling /\ [][NextBilling]_vars

\* Every endpoint that acts for a caller, one request at a time, with and
\* without the x-user-id header.
Callers == Users \cup {NoUid}

InitApi == InitStore /\ impl = "cjs" /\ budget = MaxApiRequests

NextApi ==
    \/ \E u \in Callers, q \in Questions : AskLoad("a1", u, q)
    \/ AskReconcile("a1")
    \/ AskInferOk("a1")
    \/ AskSaveOk("a1")
    \/ \E u \in Callers, hasId \in BOOLEAN, found \in BOOLEAN, pi \in Intents :
          Activate(u, hasId, found, pi)
    \/ \E u \in Callers, ok \in BOOLEAN : Subscribe(u, ok)
    \/ \E u \in Callers, ok \in BOOLEAN : Cancel(u, Null, TRUE, ok)
    \/ \E u \in Callers, ok \in BOOLEAN : CreateSetupIntent(u, Null, TRUE, ok)
    \/ \E u \in Callers, ok \in BOOLEAN : BillingSummary(u, Null, TRUE, ok)
    \/ \E u \in Callers, multipart \in BOOLEAN, n \in 0..MaxUploadFiles, ok \in BOOLEAN :
          Upload(u, Null, multipart, n, TRUE, ok)

SpecApi == InitApi /\ [][NextApi]_vars

\* The activate endpoint, with and without the x-user-id header, beside the
\* ask requests of the users, which create and charge their documents.
InitActivate == InitStore /\ impl = "cjs" /\ budget = MaxActivateRequests

NextActivate ==
    \/ \E u \in Users : AskLoad("a1", u, "text")
    \/ AskReconcile("a1")
    \/ AskInferOk("a1")
    \/ AskSaveOk("a1")
    \/ \E u \in Callers, hasId \in BOOLEAN, found \in BOOLEAN, pi \in Intents :
          Activate(u, hasId, found, pi)

SpecActivate == InitActivate /\ [][NextActivate]_vars

\* ----------------------------------------------------------------- claims
Quota(u) == users[u].quota
ResetAt(u) == users[u].quota_reset_at
StoredPlan(u) == PlanOrDefault(users[u])

\* An ask request of p makes its reconciliation step / its successful
\* inference step / its failed inference step.
Reconciles(p) == ask[p].pc = "reconcile" /\ ask'[p].pc # "reconcile"
InferenceSucceeds(p) == ask[p].pc = "infer" /\ ask'[p].pc = "save"
InferenceFails(p) == ask[p].pc = "infer" /\ ask'[p].pc = "done"

\* C1: for a user whose plan is NONE, reconciled at now < quota_reset_at, the
\* request is answered 402 when the stored quota is 0 and is admitted when it
\* is > 0; a successful inference of an admitted request leaves the stored
\* quota at the previous quota minus 1, which is not below 0.
C1_Step(p) ==
    LET u == ask[p].uid
    IN /\ (/\ Reconciles(p)
           /\ StoredPlan(u) = "NONE"
           /\ ResetAt(u) # {} /\ now < Val(ResetAt(u))
           /\ Quota(u) # {})
          => /\ Val(Quota(u)) = 0 => ask'[p].status = 402
             /\ Val(Quota(u)) > 0 => ask'[p].status # 402
       /\ (InferenceSucceeds(p) /\ StoredPlan(u) = "NONE" /\ Quota(u) # {})
          => /\ Quota(u)' = {Val(Quota(u)) - 1}
             /\ Val(Quota(u)) - 1 >= 0
C1_AdmitThenCharge == [][\A p \in AskProcs : C1_Step(p)]_vars

\* C1 witness: a free user inside the window with stored quota 0 was answered 402.
C1_Witness ==
    \E p \in AskProcs :
        /\ ask[p].status = 402
        /\ Quota(ask[p].uid) = {0}
        /\ now < Val(ResetAt(ask[p].uid))

\* C3 (as claimed): a request reconciled at now >= quota_reset_at, the
\* equality included, stores quota = FREE_WEEKLY_LIMIT and
\* quota_reset_at = now + 7 days.
C3_ResetAtOrAfterExpiry ==
    [][\A p \in AskProcs :
          (Reconciles(p) /\ ask[p].resetAt # {} /\ now >= Val(ask[p].resetAt))
          => /\ Quota(ask[p].uid)' = {FREE_WEEKLY_LIMIT}
             /\ ResetAt(ask[p].uid)' = {now + RESET_DAYS}]_vars

\* C5: for a fresh user and one request at a time, the stored quota is
\* FREE_WEEKLY_LIMIT minus the successful inference calls of the window, so it
\* runs L-1, ..., 0; with L calls served the next request of the window is
\* answered 402 with the stored reset time, without an inference call and
\* without a write.
C5_State ==
    /\ \A u \in Users :
          users[u].exists
          => Quota(u) = {FREE_WEEKLY_LIMIT - inferOk[u]} /\ inferOk[u] <= FREE_WEEKLY_LIMIT
    /\ \A p \in AskProcs :
          /\ ask[p].pc = "infer" => inferOk[ask[p].uid] < FREE_WEEKLY_LIMIT
          /\ ask[p].status = 402
             => /\ inferOk[ask[p].uid] = FREE_WEEKLY_LIMIT
                /\ ask[p].inferred = "no" /\ ~ask[p].wrote
                /\ ask[p].respResetAt = ResetAt(ask[p].uid)
C5_Step(p) ==
    /\ (Reconciles(p) /\ inferOk[ask[p].uid] = FREE_WEEKLY_LIMIT
        /\ ResetAt(ask[p].uid) # {} /\ now < Val(ResetAt(ask[p].uid)))
       => ask'[p].status = 402
    /\ ask'[p].status = 402 => users' = users
C5_FreshUserSequence == []C5_State /\ [][\A p \in AskProcs : C5_Step(p)]_vars

\* C5 witness: the (L+1)-th request of a user was answered 402 after L
\* requests were served.
C5_Witness ==
    /\ ask["a1"].status = 402
    /\ budget = MaxSeqAsks - (FREE_WEEKLY_LIMIT + 1)
    /\ inferOk[ask["a1"].uid] = FREE_WEEKLY_LIMIT

\* C2: a request that read a paid plan ("Pro" from the webhook, "PRO" from
\* activate) is never answered 402 and never writes quota after its
\* inference call, whatever the stored quota is.
PaidPlans == {"Pro", "PRO"}
C2_Step(p) ==
    /\ (FreeAsk(p) /\ ask'[p].pc = "reconcile")
       => ask'[p].plan = PlanOrDefault(users[ask'[p].uid])
    /\ (ask[p].plan \in PaidPlans /\ ask'[p] # ask[p] /\ InFlight(ask[p]))
       => /\ ask'[p].status # 402
          /\ ask[p].pc \in {"infer", "save"} => users' = users
C2_PaidNeverGated == [][\A p \in AskProcs : C2_Step(p)]_vars

\* C2 witness: a user with plan "Pro" and stored quota 0 was served.
C2_Witness ==
    \E p \in AskProcs :
        /\ ask[p].status = 200 /\ ask[p].inferred = "ok" /\ ~ask[p].wrote
        /\ users[ask[p].uid].plan = "Pro"
        /\ Quota(ask[p].uid) = {0}

\* C4: the stored quota is never below zero, under every interleaving of ask
\* requests, webhook deliveries and activate calls.
C4_QuotaNeverNegative == \A u \in Users : \A q \in Quota(u) : q >= 0

\* C4 witness: two ask requests of one user overlapped, a payment event was
\* processed, and the stored quota has reached 0.
C4_Witness ==
    /\ ask["a1"].uid = ask["a2"].uid
    /\ ask["a1"].wrote /\ ask["a2"].wrote
    /\ wh["w1"].status = 200
    /\ Quota(ask["a1"].uid) = {0}

\* C6: a failed inference call is answered 500 and leaves the store as it
\* was; a step that lowers a stored quota by one is the successful inference
\* step of a request of that user.
C6_Step ==
    /\ \A p \in AskProcs :
          (ask[p].pc = "infer" /\ ask'[p].inferred = "fail")
          => ask'[p].status = 500 /\ users' = users
    /\ \A u \in Users :
          (Quota(u) # {} /\ Quota(u)' = {Val(Quota(u)) - 1})
          => \E p \in AskProcs :
                 ask[p].uid = u /\ InferenceSucceeds(p) /\ ask'[p].inferred = "ok"
C6_FailedInferenceFree == [][C6_Step]_vars

\* C6 witness: an admitted request of a user with quota left failed in the
\* inference call.
C6_Witness ==
    \E p \in AskProcs :
        /\ ask[p].status = 500 /\ ask[p].inferred = "fail"
        /\ Quota(ask[p].uid) = {FREE_WEEKLY_LIMIT - 1}

\* A delivery is received by p / ends in this step.
Receives(p) == wh[p].pc \in {"idle", "done"} /\ wh'[p] # wh[p] /\ wh'[p].ev # NoEvent
StoreUnchanged ==
    /\ users' = users
    /\ stripeCustomers' = stripeCustomers
    /\ stripe_events' = stripe_events

\* C7 (as claimed): a delivery of an event whose record is stored answers
\* {received, duplicate} and writes nothing.
C7_Duplicate(p) ==
    /\ wh'[p].pc = "done" /\ wh'[p].status = 200 /\ wh'[p].duplicate
    /\ StoreUnchanged
C8_BadSignatureNoMutation ==
    [][\A p \in WhProcs :
          (wh'[p] # wh[p] /\ wh'[p].status = 400)
          => /\ StoreUnchanged
             /\ wh'[p].pc = "done" /\ wh'[p].ev = NoEvent]_vars

\* C8 witness: a delivery was rejected while the store holds an event record
\* and a paid entitlement.
C8_Witness ==
    \E p \in WhProcs :
        /\ wh[p].status = 400
        /\ stripe_events # {}
        /\ \E u \in Users : users[u].plan = "Pro"

\* The delivery of p answers 200 for an event it processed.
Completes(p) == wh[p].pc \in {"process", "user"} /\ wh'[p].pc = "done" /\ wh'[p].status = 200

\* C9: processing a checkout-completed event with client_reference_id u and
\* customer c, for any price, leaves u with plan "Pro" and status "active"
\* and the index mapping c to u, and leaves u's quota and quota_reset_at.
C9_Step(p) ==
    LET ev == wh[p].ev
    IN /\ (/\ Completes(p)
           /\ ev.type = "checkout.session.completed"
           /\ ev.uid # Null /\ ev.customer # Null)
          => /\ users'[ev.uid].plan = "Pro"
             /\ users'[ev.uid].status = "active"
             /\ stripeCustomers'[ev.customer] = ev.uid
       /\ wh'[p] # wh[p]
          => \A u \in Users : /\ Quota(u)' = Quota(u)
                              /\ ResetAt(u)' = ResetAt(u)
C9_CheckoutGrantsPro == [][\A p \in WhProcs : C9_Step(p)]_vars

\* C9 witness: a checkout was processed for a user who had used part of
\* their quota.
C9_Witness ==
    \E p \in WhProcs :
        /\ wh[p].status = 200 /\ ~wh[p].duplicate
        /\ wh[p].ev.type = "checkout.session.completed"
        /\ wh[p].ev.uid = TheUser
        /\ users[TheUser].plan = "Pro"
        /\ Quota(TheUser) = {FREE_WEEKLY_LIMIT - 1}
        /\ stripeCustomers[wh[p].ev.customer] = TheUser

\* C10: a processed subscription-updated event whose customer resolves to u
\* leaves u with plan "Pro" exactly when its status is active or trialing,
\* with plan NONE otherwise, and with the event's status mirrored.
C10_UpdatedMapsStatus ==
    \A p \in WhProcs :
        (/\ wh[p].pc = "done" /\ wh[p].status = 200 /\ ~wh[p].duplicate
         /\ wh[p].ev.type = "customer.subscription.updated"
         /\ wh[p].uid # Null)
        => /\ users[wh[p].uid].plan = "Pro" <=> wh[p].ev.status \in {"active", "trialing"}
           /\ users[wh[p].uid].plan = "NONE" <=> wh[p].ev.status \notin {"active", "trialing"}
           /\ users[wh[p].uid].status = wh[p].ev.status

\* C10 witness: a paid user's subscription went past_due and the plan fell
\* back to NONE.
C10_Witness ==
    /\ wh["w1"].pc = "done" /\ wh["w1"].status = 200
    /\ wh["w1"].ev.type = "customer.subscription.updated"
    /\ wh["w1"].ev.status = "past_due"
    /\ wh["w1"].uid # Null
    /\ users[wh["w1"].uid].plan = "NONE"
    /\ \E ev \in stripe_events : ev.type = "checkout.session.completed"

SubscriptionEvents == {"customer.subscription.updated", "customer.subscription.deleted"}

\* C11: a subscription-deleted event whose customer is mapped to u is
\* processed for u and leaves u with plan NONE and status "canceled", whatever
\* the plan was, and every other user's entitlement as it was.
C11_Step(p) ==
    LET w == wh[p]
        u == LookupUid(w.ev.customer)
    IN /\ (/\ w.pc = "process" /\ w.ev.type = "customer.subscription.deleted"
           /\ u # Null /\ wh'[p] # w /\ faults' = faults)
          => wh'[p].pc = "user" /\ wh'[p].uid = u /\ users' = users
       /\ (w.pc = "user" /\ w.ev.type = "customer.subscription.deleted" /\ Completes(p))
          => /\ users'[w.uid].plan = "NONE"
             /\ users'[w.uid].status = "canceled"
             /\ \A v \in Users \ {w.uid} : users'[v] = users[v]
C11_DeletedRevokesPlan == [][\A p \in WhProcs : C11_Step(p)]_vars

\* C11 witness: u2, who had the paid plan, lost it to a deleted event while
\* u1 kept theirs.
C11_Witness ==
    \E p \in WhProcs :
        /\ wh[p].pc = "done" /\ wh[p].status = 200 /\ ~wh[p].duplicate
        /\ wh[p].ev.type = "customer.subscription.deleted"
        /\ wh[p].uid = "u2"
        /\ users["u2"].plan = "NONE" /\ users["u2"].status = "canceled"
        /\ users["u1"].plan = "Pro"
        /\ \E ev \in stripe_events :
               ev.type = "checkout.session.completed" /\ ev.uid = "u2"

\* C12: a subscription-updated or -deleted event whose customer has no index
\* entry, or an entry without a user id, changes no entitlement document, and
\* once the index has been read the delivery is answered 200.
C12_Step(p) ==
    LET w == wh[p]
    IN (/\ w.pc \in {"record", "process"} /\ w.ev.type \in SubscriptionEvents
        /\ stripeCustomers[w.ev.customer] \in {"absent", Null} /\ wh'[p] # w)
       => /\ users' = users
          /\ (w.pc = "process" /\ faults' = faults)
             => wh'[p].pc = "done" /\ wh'[p].status = 200
C12_UnmappedCustomerIsNoOp == [][\A p \in WhProcs : C12_Step(p)]_vars

\* C12 witness: a past_due update for a customer the index does not hold was
\* acknowledged while a user holds the paid plan.
C12_Witness ==
    \E p \in WhProcs :
        /\ wh[p].pc = "done" /\ wh[p].status = 200 /\ ~wh[p].duplicate
        /\ wh[p].ev.type = "customer.subscription.updated"
        /\ wh[p].ev.status = "past_due"
        /\ wh[p].uid = Null
        /\ stripeCustomers[wh[p].ev.customer] = "absent"
        /\ \E u \in Users : users[u].plan = "Pro"

\* C13: the delivery of an invoice payment-succeeded or payment-failed event,
\* or of an event of an unlisted type, changes no entitlement document and no
\* customer index entry, inserts at most its own event record, and is
\* answered 200.
C13_Step(p) ==
    LET w == wh[p]
    IN /\ (Receives(p) /\ wh'[p].ev \in OtherEvents)
          => StoreUnchanged /\ wh'[p].status \in {0, 200}
       /\ (w.pc \in {"record", "process"} /\ w.ev \in OtherEvents /\ wh'[p] # w)
          => /\ users' = users
             /\ stripeCustomers' = stripeCustomers
             /\ stripe_events' \subseteq stripe_events \cup {w.ev}
             /\ wh'[p].pc = "done" => wh'[p].status = 200
C13_InformationalEventsIgnored == [][\A p \in WhProcs : C13_Step(p)]_vars

\* C13 witness: a failed invoice payment was recorded and acknowledged and
\* the paid user kept the plan.
C13_Witness ==
    \E p \in WhProcs :
        /\ wh[p].pc = "done" /\ wh[p].status = 200 /\ ~wh[p].duplicate
        /\ wh[p].ev.type = "invoice.payment_failed"
        /\ wh[p].ev \in stripe_events
        /\ \E u \in Users : users[u].plan = "Pro" /\ users[u].status = "active"

\* C14 (as claimed): every request without the caller identity header is
\* answered 401 and calls neither the store, the inference service nor the
\* payment provider.
C14_MissingIdentityIs401 ==
    /\ (act.endpoint # "none" /\ act.uid = NoUid)
       => act.status = 401 /\ act.calls = {}
    /\ \A p \in AskProcs :
          (ask[p].pc = "done" /\ ask[p].uid = NoUid)
          => ask[p].status = 401 /\ ask[p].inferred = "no" /\ ~ask[p].wrote

\* The reconciliation step of a request whose body holds no usable question.
RejectsBody(p) == Reconciles(p) /\ ask[p].question # "text"
NotCharged(u) ==
    /\ Quota(u)' = Quota(u) \/ Quota(u)' = {FREE_WEEKLY_LIMIT}
    /\ inferOk'[u] <= inferOk[u]

C16_Step(p) ==
    LET u == ask[p].uid
    IN (Reconciles(p) /\ ResetAt(u) = {})
       => /\ users'[u].exists
          /\ Quota(u)' = {FREE_WEEKLY_LIMIT}
          /\ ResetAt(u)' = {now + RESET_DAYS}
          /\ users'[u].plan = users[u].plan
          /\ ~users[u].exists => StoredPlan(u)' = "NONE"
          /\ ask'[p].status # 402
C17_Step ==
    /\ ask' # ask
       => \A u \in Users : /\ users'[u].plan = users[u].plan
                            /\ users'[u].status = users[u].status
                            /\ users'[u].customerId = users[u].customerId
    /\ wh' # wh
       => \A u \in Users : /\ Quota(u)' = Quota(u)
                            /\ ResetAt(u)' = ResetAt(u)
C17_Final ==
    LET a == ask["a1"]
        w == wh["w1"]
    IN (/\ budget = MaxRequests - 2
        /\ a.pc = "done" /\ a.status = 200 /\ a.uid = TheUser
        /\ w.pc = "done" /\ w.status = 200 /\ w.uid = TheUser)
       => /\ users[TheUser].plan = "Pro"
          /\ users[TheUser].status = "active"
          /\ users[TheUser].customerId = w.ev.customer
          /\ Quota(TheUser) = {IF a.wrote THEN FREE_WEEKLY_LIMIT - 1 ELSE FREE_WEEKLY_LIMIT}
          /\ \E t \in 0..now : ResetAt(TheUser) = {t + RESET_DAYS}
C17_WritesMerge == []C17_Final /\ [][C17_Step]_vars

\* C17 witness: a checkout event of the user was processed while their ask
\* request was in flight; the request has charged the quota it read as a
\* free user and the document holds both writes.
C17_Witness ==
    /\ budget = MaxRequests - 2
    /\ ask["a1"].pc = "save" /\ ask["a1"].wrote /\ ask["a1"].uid = TheUser
    /\ wh["w1"].pc = "done" /\ wh["w1"].status = 200 /\ wh["w1"].uid = TheUser
    /\ users[TheUser].plan = "Pro"
    /\ Quota(TheUser) = {FREE_WEEKLY_LIMIT - 1}

\* C18 (as claimed): no event record is ever set when it already exists,
\* under any interleaving of deliveries.
C18_EventRecordWrittenOnce == rewritten = {}

\* C19 (as claimed): after the reconciliation step of a request at time now,
\* whether or not it reset the window, the stored quota_reset_at is strictly
\* later than now.
C19_ResetAtInFuture ==
    [][\A p \in AskProcs :
          Reconciles(p)
          => \A r \in ResetAt(ask[p].uid)' : r > now]_vars

\* C20: at most the first 3 attached files are read; a file that fails
\* leaves the error marker in its slot and the request goes on: the other
\* files are read, the inference call is made, and its success charges a
\* free user's quota.
C20_State ==
    \A p \in AskProcs :
        LET a == ask[p]
        IN /\ Len(a.slots) <= MAX_FILES_READ
           /\ a.pc \in {"files", "infer", "save"}
              => /\ Len(a.slots) <= a.files
                 /\ Len(a.slots) + a.left =
                        (IF ~a.bucket THEN 0
                         ELSE IF a.files <= 3 THEN a.files ELSE 3)
           /\ a.pc \in {"infer", "save"} => a.left = 0
C20_Step(p) ==
    LET a == ask[p]
    IN /\ (a.pc = "files" /\ ask'[p] # a)
          => /\ ask'[p].pc \in {"files", "infer"}
             /\ \E slot \in FileSlots : ask'[p].slots = Append(a.slots, slot)
             /\ users' = users
       /\ (InferenceSucceeds(p) /\ a.plan = "NONE")
          => Quota(a.uid)' = {a.quota - 1}
C20_FileErrorsDegrade == []C20_State /\ [][\A p \in AskProcs : C20_Step(p)]_vars

\* C20 witness: a request with more than 3 files, the second of which failed,
\* has made its inference call after 3 reads and was charged.
C20_Witness ==
    /\ ask["a1"].pc = "save" /\ ask["a1"].files > 3
    /\ ask["a1"].inferred = "ok" /\ ask["a1"].wrote
    /\ ask["a1"].slots = <<"text", "error", "text">>
    /\ Quota(ask["a1"].uid) = {FREE_WEEKLY_LIMIT - 1}

\* C21: an upload answered 200 returns one entry per file received and adds
\* exactly that many metadata documents under the caller's chat and none
\* elsewhere; an upload answered otherwise adds no metadata document.
C21_Step ==
    act' # act \/ budget' # budget
    => LET a == act'
       IN a.endpoint = "upload"
          => /\ a.status \in {200, 400, 401, 500}
             /\ a.status # 200 => uploads' = uploads /\ a.returned = 0
             /\ a.status = 200
                => \E c \in Chats :
                      /\ uploads' = [uploads EXCEPT ![a.uid][c] = @ + a.returned]
                      /\ a.returned <= UPLOAD_FILE_LIMIT
C21_UploadAllOrNothing == [][C21_Step]_vars

\* C21 witness: an upload with files failed at the commit after an earlier
\* upload had stored its single file under the chat named in its header.
C21_Witness ==
    /\ act.endpoint = "upload" /\ act.status = 500 /\ act.calls = {"store"}
    /\ act.uid = TheUser
    /\ uploads[TheUser]["chat1"] = 1
    /\ uploads[TheUser]["default"] = 0

\* C22 (as claimed): an activate request of u, when every intent the
\* provider holds was created by subscribe for u and has succeeded, is
\* answered 200 { ok, plan: 'PRO' } and leaves u with plan PRO.
C22_ActivateAfterSubscribe ==
    [][(/\ budget' # budget /\ act'.endpoint = "activate"
        /\ intents # {}
        /\ \A i \in intents : i.user_id = act'.uid /\ i.status = "succeeded")
       => /\ act'.status = 200 /\ act'.plan = "PRO"
          /\ users'[act'.uid].plan = "PRO"]_vars

\* C23: the decrement writes the quota the request read minus one, whatever
\* the store holds by then, so two requests that read the same quota q leave
\* q - 1 and both are served: more requests are served in a window than the
\* quota allows.
C23_DecrementIsBlind ==
    [][\A p \in AskProcs :
          (InferenceSucceeds(p) /\ ask[p].plan = "NONE")
          => /\ ask[p].quota > 0
             /\ Quota(ask[p].uid)' = {ask[p].quota - 1}]_vars

\* C23 witness: two pairs of overlapping requests of a free user were all
\* answered 200 in one window: FREE_WEEKLY_LIMIT + 1 served, and the stored
\* quota is still FREE_WEEKLY_LIMIT - 2.
C23_Witness ==
    /\ ask["a1"].uid = TheUser /\ ask["a2"].uid = TheUser
    /\ ask["a1"].status = 200 /\ ask["a2"].status = 200
    /\ ask["a1"].wrote /\ ask["a2"].wrote
    /\ inferOk[TheUser] = FREE_WEEKLY_LIMIT + 1
    /\ Quota(TheUser) = {FREE_WEEKLY_LIMIT - 2}
    /\ users[TheUser].plan = "absent"

\* C24 (as claimed): when the provider has its 2xx for a checkout event that
\* names a user, and so stops redelivering it, the event's entitlement write
\* has been made, whether or not an earlier delivery failed.
C24_AcknowledgedMeansApplied ==
    \A p \in WhProcs :
        (/\ wh[p].pc = "done" /\ wh[p].status = 200
         /\ wh[p].ev.type = "checkout.session.completed" /\ wh[p].ev.uid # Null)
        => wh[p].ev \in applied

\* C25 (as claimed): an ask request answered with a 5xx response has not
\* decremented the caller's stored quota; in particular a failed chat save
\* after a successful inference call leaves the quota as the request read it.
C25_ServerErrorNotCharged ==
    [][\A p \in AskProcs :
          (InFlight(ask[p]) /\ ask'[p].pc = "done" /\ ask'[p].status >= 500)
          => /\ ~ask'[p].wrote
             /\ ask[p].plan = "NONE" => Quota(ask[p].uid)' = {ask[p].quota}]_vars

\* C26 (as claimed): from the same store the two servers make the same
\* writes for a checkout-completed event: whichever server processes it, the
\* customer index and the entitlement documents change exactly as they do
\* under the other, and an event with a customer id but no
\* client_reference_id leaves the customer index as it was.
C26_Step(p) ==
    LET ev == wh[p].ev
    IN (/\ wh[p].pc = "process" /\ ev.type = "checkout.session.completed"
        /\ wh'[p] # wh[p] /\ wh'[p].status # 500)
       => /\ \A which \in Impls :
                stripeCustomers' =
                    IF WritesIndex(which, ev)
                    THEN [stripeCustomers EXCEPT ![ev.customer] = ev.uid]
                    ELSE stripeCustomers
          /\ ev.uid = Null => stripeCustomers' = stripeCustomers /\ users' = users
C26_ImplementationsAgree == [][\A p \in WhProcs : C26_Step(p)]_vars

\* The last webhook write to u's entitlement was made by a
\* subscription-deleted event.
DeletedLast(u) ==
    /\ users[u] # NoDoc
    /\ users[u].plan = "NONE" /\ users[u].status = "canceled"
    /\ \E d \in applied : d.type = "customer.subscription.deleted"
    /\ \A e \in applied :
          ~(e.type = "customer.subscription.updated" /\ e.status = "canceled")

\* C27 (as claimed): after a subscription-deleted event was processed for u,
\* no webhook event other than a checkout-completed event for u changes u's
\* plan from NONE.
C27_DeletedStaysNone ==
    [][\A u \in Users : \A p \in WhProcs :
          (DeletedLast(u) /\ wh'[p] # wh[p] /\ users'[u] # users[u])
          => \/ users'[u].plan = "NONE"
             \/ wh[p].ev.type = "checkout.session.completed" /\ wh[p].ev.uid = u]_vars

\* An activate request is answered: the step takes a request and starts no
\* ask request.
Activates == budget' # budget /\ ask' = ask /\ act'.endpoint = "activate"

\* C28: an activate request changes an entitlement only when the intent it
\* retrieved has status succeeded and its metadata uid is the caller, and
\* then it changes only the caller's document, to plan PRO and quota 999999,
\* keeping its other fields; a request answered 400, 401 or 403 leaves every
\* entitlement document unchanged.
C28_Step ==
    LET a == act'
    IN Activates
       => /\ a.status \in {200, 400, 401, 403}
          /\ a.status # 200 => users' = users
          /\ (users' # users \/ a.status = 200)
             => /\ a.intent # NoIntent
                /\ a.intent.status = "succeeded" /\ a.intent.uid = a.uid
                /\ \A v \in Users \ {a.uid} : users'[v] = users[v]
                /\ users'[a.uid] = [users[a.uid] EXCEPT !.exists = TRUE, !.plan = "PRO",
                                                        !.quota = {999999}]
C28_ActivateOnlyOwnPaidIntent == [][C28_Step]_vars

\* C28 witness: a caller whose document held a free quota and a reset time was
\* activated; the other user has no document.
C28_Witness ==
    /\ act.endpoint = "activate" /\ act.status = 200 /\ act.uid = "u1"
    /\ users["u1"].plan = "PRO" /\ users["u1"].quota = {ACTIVATE_QUOTA}
    /\ users["u1"].quota_reset_at # {}
    /\ users["u2"] = NoDoc

\* C29 (as claimed): a cancel request of u answered 200, when u's entitlement
\* records an active subscription of customer c and the provider holds it,
\* leaves every active subscription of c marked cancel_at_period_end and
\* creates no customer at the provider, with or without an email header.
C29_CancelReachesSubscription ==
    [][\A c \in Customers :
          (/\ budget' # budget /\ wh' = wh
           /\ act'.endpoint = "cancel" /\ act'.status = 200
           /\ users[act'.uid].customerId = c /\ users[act'.uid].status = "active"
           /\ ActiveSubs(c) # {})
          => /\ customers' = customers
             /\ \A x \in subs' : (x.customer = c /\ x.status = "active") => x.cancel]_vars

\* C30 (as claimed): when the billing summary read a subscription in the
\* status of the subscription-updated event last processed for the user, it
\* reports plan "pro" exactly when that event left the user a paid plan.
C30_StatusMappingsAgree ==
    LET w == wh["w1"]
    IN (/\ act.endpoint = "summary" /\ act.status = 200 /\ act.sub # Null
        /\ w.pc = "done" /\ w.status = 200 /\ ~w.duplicate
        /\ w.ev.type = "customer.subscription.updated"
        /\ w.uid = act.uid /\ w.ev.status = act.sub)
       => (act.plan = "pro" <=> users[act.uid].plan \in PaidPlans)

\* C31: a throwing read or insert of the event record is swallowed: the step
\* writes nothing, answers nothing and hands the event to processing, seen
\* before or not; and every delivery being processed is answered by its
\* processing alone: 500 exactly when a processing call throws, 200 otherwise,
\* with the entitlement write made when the event resolved a user.
C31_Step(p) ==
    LET w == wh[p]
        threw == faults' # faults
    IN /\ (w.pc \in {"idle", "done", "record"} /\ wh'[p] # w /\ threw)
          => /\ wh'[p].pc = "process"
             /\ wh'[p].status = 0 /\ ~wh'[p].duplicate
             /\ wh'[p].ev # NoEvent
             /\ StoreUnchanged
       /\ (w.pc \in {"process", "user"} /\ wh'[p].pc = "done")
          => /\ wh'[p].status = IF threw THEN 500 ELSE 200
             /\ ~wh'[p].duplicate
             /\ (wh'[p].status = 200 /\ wh'[p].uid # Null) => w.ev \in applied'
C31_DedupeErrorsSwallowed == [][\A p \in WhProcs : C31_Step(p)]_vars

\* C31 witness: a checkout event of a user was answered 200 and its
\* entitlement written although no record of the event was stored: its
\* record's read or insert threw.
C31_Witness ==
    LET w == wh["w1"]
    IN /\ w.pc = "done" /\ w.status = 200 /\ ~w.duplicate
       /\ w.ev.type = "checkout.session.completed" /\ w.ev.uid = "u1"
       /\ w.ev \notin stripe_events
       /\ faults = 1
       /\ w.ev \in applied
       /\ users["u1"].plan \in PaidPlans

====
